---------------------------- MODULE Spec2Model ----------------------------
(***************************************************************************)
(* A model of two subsystems of diagnnose:                                 *)
(*   - InitStates  (src/diagnnose/activations/init_states.py)              *)
(*   - LinzenDownstream  (src/diagnnose/downstream/tasks/linzen.py)        *)
(*                                                                         *)
(* Python values are modelled as follows.                                  *)
(*   Optional[T]   : << >> is None, <<v>> is the value v                   *)
(*   dict          : a function; its DOMAIN is the set of keys             *)
(*   list, str.split() result : a sequence                                 *)
(*   str           : a TLA+ string, except where single characters are     *)
(*                   inspected (orig_sentence), which is a sequence of     *)
(*                   code points                                           *)
(*   torch.Tensor  : [shape |-> <<d1, ...>>, data |-> nested sequences]    *)
(*   a call        : [raised |-> "" or the exception's name,               *)
(*                    msg |-> its message, value |-> the returned value]   *)
(***************************************************************************)
EXTENDS Integers, Sequences, FiniteSets, TLC

VARIABLES
    pc,                \* which entry point is about to run / has run
    sizes,             \* InitStates.sizes : layer -> [h, c]
    init_states_path,  \* InitStates.init_states_path : Optional[str]
    pickle,            \* what load_pickle(init_states_path) deserialises to
    batch_size,        \* the batch_size argument of create / create_zero_state
    init_states,       \* the outcome of create / create_zero_state
    item,              \* a RawItem handed to a static method
    sva_condition,     \* the outcome of item_to_sva_condition
    transliterated,    \* whether item_to_example called unidecode
    example,           \* the outcome of item_to_example : Optional[Example]
    corpus_file,       \* the rows of agr_50_mostcommon_10K.tsv after the header
    wiki_vocab,        \* the rows of wiki.vocab after the header
    model_vocab,       \* the lines of the model vocabulary file
    plural_verb,       \* inflect.engine().plural_verb, as a function on words
    subtasks,          \* the subtasks argument
    items_per_subtask, \* the items_per_subtask argument : Optional[int]
    raw_corpora,       \* the outcome of create_raw_corpora
    verb_inflections,  \* the outcome of create_verb_inflections
    corpora            \* the outcome of create_corpora

vars == <<pc, sizes, init_states_path, pickle, batch_size, init_states,
          item, sva_condition, transliterated, example,
          corpus_file, wiki_vocab, model_vocab, plural_verb,
          subtasks, items_per_subtask, raw_corpora, verb_inflections, corpora>>

statesVars == <<sizes, init_states_path, pickle, batch_size, init_states>>
itemVars == <<item, sva_condition, transliterated, example>>
corpusVars == <<corpus_file, subtasks, items_per_subtask, raw_corpora, corpora>>
vocabVars == <<wiki_vocab, model_vocab, plural_verb, verb_inflections>>

None == << >>
Some(v) == <<v>>

(***************************************************************************)
(* Bounds of the model.                                                    *)
(***************************************************************************)
MaxLayers == 2
MaxBatch == 2
Widths == {1, 2}

(***************************************************************************)
(* Python helpers.                                                         *)
(***************************************************************************)
Min(a, b) == IF a <= b THEN a ELSE b
Max(a, b) == IF a >= b THEN a ELSE b

\* s[start:stop] of a list of length Len(s); None is passed as << >>.
\* Negative indices count from the end; both ends are clipped to the list.
PyIndex(i, n, dflt) ==
    IF i = None THEN dflt
    ELSE IF i[1] < 0 THEN Max(i[1] + n, 0)
    ELSE Min(i[1], n)

PySlice(s, start, stop) ==
    LET n == Len(s)
        lo == PyIndex(start, n, 0)
        hi == PyIndex(stop, n, n)
    IN  IF lo >= hi THEN << >> ELSE [k \in 1..(hi - lo) |-> s[lo + k]]

(***************************************************************************)
(* InitStates                                                              *)
(***************************************************************************)
Raise(exc, message) == [raised |-> exc, msg |-> message, value |-> << >>]
Return(v) == [raised |-> "", msg |-> "", value |-> v]

num_layers(sz) == Cardinality(DOMAIN sz)

\* torch.zeros((batch_size, size))
zeros(batch, size) ==
    [shape |-> <<batch, size>>,
     data |-> [b \in 1..batch |-> [i \in 1..size |-> 0]]]

\* InitStates._create_zero_state
create_zero_state_tensor(size, batch) == zeros(batch, size)

\* A plausible slip: the hx tensor sized by the layer's declared h width.
create_zero_state_hidden_width(sz, batch) ==
    [key \in {<<layer, kind>> : layer \in 0..(num_layers(sz) - 1),
                                kind \in {"cx", "hx"}} |->
        IF key[2] = "cx"
        THEN create_zero_state_tensor(sz[key[1]].c, batch)
        ELSE create_zero_state_tensor(sz[key[1]].h, batch)]

\* InitStates.create_zero_state
create_zero_state(sz, batch) ==
    [key \in {<<layer, kind>> : layer \in 0..(num_layers(sz) - 1),
                                kind \in {"cx", "hx"}} |->
        IF key[2] = "cx"
        THEN create_zero_state_tensor(sz[key[1]].c, batch)
        ELSE create_zero_state_tensor(sz[key[1]].c, batch)]

\* tensor.size(0)
size0(t) == t.shape[1]

\* tensor.unsqueeze(0)
unsqueeze0(t) == [shape |-> <<1>> \o t.shape, data |-> <<t.data>>]

\* torch.repeat_interleave(t, repeats, dim=0)
repeat_interleave0(t, repeats) ==
    [shape |-> <<t.shape[1] * repeats>> \o Tail(t.shape),
     data |-> [k \in 1..(Len(t.data) * repeats) |->
                  t.data[((k - 1) \div repeats) + 1]]]

\* The body of the loop of InitStates._validate for the layers from `layer` on;
\* "" when no assertion fails, else the message of the first one that does.
RECURSIVE validate_layers(_, _, _)
validate_layers(sz, states, layer) ==
    IF layer \notin DOMAIN sz THEN ""
    ELSE IF ~(<<layer, "hx">> \in DOMAIN states /\ <<layer, "cx">> \in DOMAIN states)
    THEN "Initial layer names not correct, should be hx and cx"
    ELSE IF size0(states[<<layer, "hx">>]) # sz[layer].h
    THEN "Initial activation size for hx is incorrect"
    ELSE IF size0(states[<<layer, "cx">>]) # sz[layer].c
    THEN "Initial activation size for cx is incorrect"
    ELSE validate_layers(sz, states, layer + 1)

\* A plausible slip: the entry count is not checked.
layer_count_unchecked(sz, states) == TRUE

\* The first assertion of InitStates._validate.
layer_count_ok(sz, states) == Cardinality(DOMAIN states) = num_layers(sz)

\* InitStates._validate
validate(sz, states) ==
    IF ~layer_count_ok(sz, states)
    THEN "Number of initial layers not correct"
    ELSE validate_layers(sz, states, 0)

\* InitStates._expand_batch_size
expand_batch_size(sz, states, batch) ==
    LET keys == {<<layer, kind>> : layer \in 0..(num_layers(sz) - 1),
                                   kind \in {"cx", "hx"}}
    IN  IF keys \subseteq DOMAIN states
        THEN Return([key \in keys |->
                        repeat_interleave0(unsqueeze0(states[key]), batch)])
        ELSE Raise("KeyError", "")

\* InitStates.create
create(sz, path, loaded, batch) ==
    IF path # None
    THEN LET failed == validate(sz, loaded)
         IN  IF failed # ""
             THEN Raise("AssertionError", failed)
             ELSE expand_batch_size(sz, loaded, batch)
    ELSE Return(create_zero_state(sz, batch))

(***************************************************************************)
(* The inputs of InitStates: every layer-size spec of up to MaxLayers      *)
(* layers, and every pickled structure holding, for each key of those      *)
(* layers, either nothing or an unbatched tensor of some width.            *)
(***************************************************************************)
SizeDicts ==
    UNION {[0..(n - 1) -> [h : Widths, c : Widths]] : n \in 0..MaxLayers}

PickleKeys == (0..(MaxLayers - 1)) \X {"hx", "cx"}

\* An unbatched tensor; its entries tell the key it was stored under.
PickledTensor(key, width) ==
    [shape |-> <<width>>,
     data |-> [i \in 1..width |-> 2 * key[1] + (IF key[2] = "hx" THEN 1 ELSE 2)]]

Pickles ==
    UNION {{[key \in keys |-> PickledTensor(key, w[key])] : w \in [keys -> Widths]}
           : keys \in SUBSET PickleKeys}

IdleStates ==
    /\ sizes = << >>
    /\ init_states_path = None
    /\ pickle = << >>
    /\ batch_size = 0
    /\ init_states = Return(<< >>)

IdleItem ==
    /\ item = << >>
    /\ sva_condition = ""
    /\ transliterated = FALSE
    /\ example = None

IdleCorpus ==
    /\ corpus_file = << >>
    /\ subtasks = << >>
    /\ items_per_subtask = None
    /\ raw_corpora = << >>
    /\ corpora = << >>

IdleVocab ==
    /\ wiki_vocab = << >>
    /\ model_vocab = {}
    /\ plural_verb = << >>
    /\ verb_inflections = << >>

InitInitStates ==
    /\ pc = "InitStates"
    /\ sizes \in SizeDicts
    /\ \/ init_states_path = None /\ pickle = << >>
       \/ init_states_path = Some("init_states.pickle") /\ pickle \in Pickles
    /\ batch_size = 0
    /\ init_states = Return(<< >>)
    /\ IdleItem /\ IdleCorpus /\ IdleVocab

\* A call of InitStates.create(batch_size).
Create ==
    /\ pc = "InitStates"
    /\ \E batch \in 0..MaxBatch :
          /\ batch_size' = batch
          /\ init_states' = create(sizes, init_states_path, pickle, batch)
    /\ pc' = "create"
    /\ UNCHANGED <<sizes, init_states_path, pickle>>
    /\ UNCHANGED <<itemVars, corpusVars, vocabVars>>

\* A call of InitStates.create_zero_state(batch_size).
CreateZeroState ==
    /\ pc = "InitStates"
    /\ \E batch \in 0..MaxBatch :
          /\ batch_size' = batch
          /\ init_states' = Return(create_zero_state(sizes, batch))
    /\ pc' = "create_zero_state"
    /\ UNCHANGED <<sizes, init_states_path, pickle>>
    /\ UNCHANGED <<itemVars, corpusVars, vocabVars>>

NextInitStates == Create \/ CreateZeroState

SpecInitStates == InitInitStates /\ [][NextInitStates]_vars

(***************************************************************************)
(* Claims about InitStates.                                                *)
(***************************************************************************)
LayerKeys(sz) == (0..(num_layers(sz) - 1)) \X {"hx", "cx"}

\* One unbatched hx and one unbatched cx tensor per layer, of the declared widths.
CompliantPickle ==
    /\ DOMAIN pickle = LayerKeys(sizes)
    /\ \A layer \in DOMAIN sizes :
          /\ pickle[<<layer, "hx">>].shape = <<sizes[layer].h>>
          /\ pickle[<<layer, "cx">>].shape = <<sizes[layer].c>>

\* `batched` is `batch` identical copies of the unbatched tensor `t`.
IsReplicated(batched, t, batch) ==
    /\ batched.shape = <<batch>> \o t.shape
    /\ Len(batched.data) = batch
    /\ \A b \in 1..batch : batched.data[b] = t.data

\* C1: with a state source configured, at least one layer and batch_size >= 1,
\* a pickle holding one hx and one cx tensor of the declared widths per layer
\* passes validation, and create returns batch_size identical copies of each
\* loaded tensor.
C1_LoadedStateIsBroadcast ==
    (/\ pc = "create"
     /\ init_states_path # None
     /\ num_layers(sizes) >= 1
     /\ batch_size >= 1
     /\ CompliantPickle)
    => /\ init_states.raised = ""
       /\ DOMAIN init_states.value = LayerKeys(sizes)
       /\ \A key \in LayerKeys(sizes) :
             IsReplicated(init_states.value[key], pickle[key], batch_size)

\* `t` is a zero-filled tensor of shape (batch, width).
IsZeros(t, batch, width) ==
    /\ t.shape = <<batch, width>>
    /\ Len(t.data) = batch
    /\ \A b \in 1..batch :
          /\ Len(t.data[b]) = width
          /\ \A i \in 1..width : t.data[b][i] = 0

\* C2: create_zero_state(B), and create(B) without a state source, return
\* exactly one hx and one cx tensor per layer, each zero-filled and of shape
\* (B, c width of the layer), also for hx when the declared h width differs.
C2_ZeroStateShape ==
    (pc = "create_zero_state" \/ (pc = "create" /\ init_states_path = None))
    => /\ init_states.raised = ""
       /\ DOMAIN init_states.value = LayerKeys(sizes)
       /\ \A key \in LayerKeys(sizes) :
             IsZeros(init_states.value[key], batch_size, sizes[key[1]].c)

C2_Witness ==
    /\ pc = "create"
    /\ init_states_path = None
    /\ batch_size = MaxBatch
    /\ num_layers(sizes) = MaxLayers
    /\ \E layer \in DOMAIN sizes : sizes[layer].h # sizes[layer].c
    /\ init_states.raised = ""
    /\ \A key \in LayerKeys(sizes) :
          init_states.value[key].shape = <<MaxBatch, sizes[key[1]].c>>

\* The loaded structure breaks the layer/width contract in one of the ways
\* the validation is said to reject.
PickleDefect ==
    \/ Cardinality(DOMAIN pickle) # num_layers(sizes)
    \/ \E layer \in DOMAIN sizes :
          \/ <<layer, "hx">> \notin DOMAIN pickle
          \/ <<layer, "cx">> \notin DOMAIN pickle
          \/ /\ <<layer, "hx">> \in DOMAIN pickle
             /\ size0(pickle[<<layer, "hx">>]) # sizes[layer].h
          \/ /\ <<layer, "cx">> \in DOMAIN pickle
             /\ size0(pickle[<<layer, "cx">>]) # sizes[layer].c

MaxTags == 4
MaxChars == 4
MaxVerbIndex == 3

Tags == {"DT", "NN", "NNS", "VBP"}

\* pos_mapping.get(t, "")
pos_mapping_get(t) ==
    IF t = "NNS" THEN "P" ELSE IF t = "NN" THEN "S" ELSE ""

\* "".join(strings)
RECURSIVE join(_)
join(strings) ==
    IF strings = << >> THEN "" ELSE Head(strings) \o join(Tail(strings))

\* A plausible slip: the slice taken strictly between the two positions.
item_to_sva_condition_between(it) ==
    LET pos_sen == it.pos_sentence
        pos_subsen == PySlice(pos_sen, Some(it.subj_index), Some(it.verb_index - 1))
    IN  join([k \in 1..Len(pos_subsen) |-> pos_mapping_get(pos_subsen[k])])

\* LinzenDownstream.item_to_sva_condition
item_to_sva_condition(it) ==
    LET pos_sen == it.pos_sentence
        pos_subsen == PySlice(pos_sen, Some(it.subj_index - 1), Some(it.verb_index))
    IN  join([k \in 1..Len(pos_subsen) |-> pos_mapping_get(pos_subsen[k])])

\* The code points str.split() treats as whitespace.
Whitespace ==
    (9..13) \cup (28..32) \cup {133, 160, 5760} \cup (8192..8202)
        \cup {8232, 8233, 8239, 8287, 12288}

\* unidecode of one character: ASCII is kept, the others are replaced by
\* their closest ASCII representation (here for the characters of Alphabet).
unidecode_char(c) ==
    IF c < 128 THEN <<c>>
    ELSE IF c = 160 THEN <<32>>       \* NO-BREAK SPACE -> " "
    ELSE IF c = 233 THEN <<101>>      \* e with acute -> "e"
    ELSE IF c = 8217 THEN <<39>>      \* right single quotation mark -> "'"
    ELSE << >>

\* unidecode(string)
RECURSIVE unidecode(_)
unidecode(str) ==
    IF str = << >> THEN << >>
    ELSE unidecode_char(Head(str)) \o unidecode(Tail(str))

\* str.split(): the maximal runs of non-whitespace characters, in order.
\* `token` is the run collected so far.
RECURSIVE split_from(_, _)
split_from(str, token) ==
    IF str = << >>
    THEN IF token = << >> THEN << >> ELSE <<token>>
    ELSE IF Head(str) \in Whitespace
    THEN (IF token = << >> THEN << >> ELSE <<token>>) \o split_from(Tail(str), << >>)
    ELSE split_from(Tail(str), Append(token, Head(str)))

split(str) == split_from(str, << >>)

\* A plausible slip: the test written against the ASCII range.
needs_unidecode_ascii(orig_sentence) ==
    ~(\A k \in 1..Len(orig_sentence) : orig_sentence[k] < 128)

\* not all(ord(c) < 256 for c in orig_sentence)
needs_unidecode(orig_sentence) ==
    ~(\A k \in 1..Len(orig_sentence) : orig_sentence[k] < 256)

\* Example.fromlist([subsen, item.verb, opposite_verb], fields)
Example(subsen, verb, opposite_verb) ==
    [sen |-> subsen, token |-> verb, wrong_token |-> opposite_verb]

\* verb_inflections.get(verb, None)
dict_get(dict, key) == IF key \in DOMAIN dict THEN Some(dict[key]) ELSE None

\* A plausible slip: a verb without an inflection pair is kept as its own
\* opposite instead of being dropped.
item_to_example_keep(it, table) ==
    LET orig_sentence == IF needs_unidecode(it.orig_sentence)
                         THEN unidecode(it.orig_sentence)
                         ELSE it.orig_sentence
        subsen == PySlice(split(orig_sentence), None, Some(it.verb_index - 1))
        opposite_verb == dict_get(table, it.verb)
    IN  IF opposite_verb = None
        THEN Some(Example(subsen, it.verb, it.verb))
        ELSE Some(Example(subsen, it.verb, opposite_verb[1]))

\* LinzenDownstream.item_to_example
item_to_example(it, table) ==
    LET orig_sentence == IF needs_unidecode(it.orig_sentence)
                         THEN unidecode(it.orig_sentence)
                         ELSE it.orig_sentence
        subsen == PySlice(split(orig_sentence), None, Some(it.verb_index - 1))
        opposite_verb == dict_get(table, it.verb)
    IN  IF opposite_verb = None
        THEN None
        ELSE Some(Example(subsen, it.verb, opposite_verb[1]))

RawItem(orig, pos, verb, subj_index, verb_index) ==
    [orig_sentence |-> orig, pos_sentence |-> pos, verb |-> verb,
     subj_index |-> subj_index, verb_index |-> verb_index]

SeqsUpTo(S, n) == UNION {[1..k -> S] : k \in 0..n}

\* The inputs of item_to_sva_condition: every tag sequence of up to MaxTags
\* tags and every pair of positions in or next to it.
InitSva ==
    /\ pc = "RawItem.sva"
    /\ \E pos \in SeqsUpTo(Tags, MaxTags), s, v \in 0..(MaxTags + 1) :
          item = RawItem(<< >>, pos, "is", s, v)
    /\ sva_condition = ""
    /\ transliterated = FALSE
    /\ example = None
    /\ IdleStates /\ IdleCorpus /\ IdleVocab

\* A call of LinzenDownstream.item_to_sva_condition(item).
ItemToSvaCondition ==
    /\ pc = "RawItem.sva"
    /\ sva_condition' = item_to_sva_condition(item)
    /\ pc' = "item_to_sva_condition"
    /\ UNCHANGED <<item, transliterated, example>>
    /\ UNCHANGED <<statesVars, corpusVars, vocabVars>>

NextSva == ItemToSvaCondition

SpecSva == InitSva /\ [][NextSva]_vars

\* The characters of the modelled sentences: space, "a", NO-BREAK SPACE,
\* e with acute (both Latin-1), right single quotation mark (beyond Latin-1).
Alphabet == {32, 97, 160, 233, 8217}

IsAre == [w \in {"is", "are"} |-> IF w = "is" THEN "are" ELSE "is"]

\* The inputs of item_to_example: every sentence of up to MaxChars characters,
\* a 1-based verb position, a verb with and one without an inflection pair.
InitExample ==
    /\ pc = "RawItem.example"
    /\ \E orig \in SeqsUpTo(Alphabet, MaxChars), v \in 1..MaxVerbIndex,
          verb \in {"is", "walks"} :
          item = RawItem(orig, << >>, verb, 1, v)
    /\ sva_condition = ""
    /\ transliterated = FALSE
    /\ example = None
    /\ wiki_vocab = << >>
    /\ model_vocab = {}
    /\ plural_verb = << >>
    /\ verb_inflections = IsAre
    /\ IdleStates /\ IdleCorpus

\* A call of LinzenDownstream.item_to_example(item, fields, verb_inflections).
ItemToExample ==
    /\ pc = "RawItem.example"
    /\ transliterated' = needs_unidecode(item.orig_sentence)
    /\ example' = item_to_example(item, verb_inflections)
    /\ pc' = "item_to_example"
    /\ UNCHANGED <<item, sva_condition>>
    /\ UNCHANGED <<statesVars, corpusVars, vocabVars>>

NextExample == ItemToExample

SpecExample == InitExample /\ [][NextExample]_vars

(***************************************************************************)
(* Claims about the static methods.                                        *)
(***************************************************************************)
TagLetter(t) == CASE t = "NNS" -> "P" [] t = "NN" -> "S" [] OTHER -> ""

\* The letters of the tags at the 1-based positions lo..hi, in order.
RECURSIVE LettersOf(_, _, _)
LettersOf(tags, lo, hi) ==
    IF lo > hi THEN "" ELSE TagLetter(tags[lo]) \o LettersOf(tags, lo + 1, hi)

\* C4, as stated: the condition is built from the tags strictly between the
\* subject position and the verb position, the subject's own tag and the
\* verb's own tag not being scanned.
C4_ScansStrictlyBetween ==
    (/\ pc = "item_to_sva_condition"
     /\ 1 <= item.subj_index
     /\ item.subj_index < item.verb_index
     /\ item.verb_index <= Len(item.pos_sentence))
    => sva_condition =
          LettersOf(item.pos_sentence, item.subj_index + 1, item.verb_index - 1)

\* C4, amended: for 1-based positions subj_index >= 1 and verb_index >= 0 the
\* condition is the in-order concatenation of "P" for each NNS and "S" for
\* each NN among the tags at the positions subj_index..verb_index, both ends
\* included (clipped to the sentence), every other tag contributing nothing.
C4_ScansSubjectThroughVerb ==
    (pc = "item_to_sva_condition" /\ item.subj_index >= 1)
    => sva_condition =
          LettersOf(item.pos_sentence, item.subj_index,
                    Min(item.verb_index, Len(item.pos_sentence)))

\* The docstring's case: a plural subject with one singular attractor.
C4_Witness ==
    /\ pc = "item_to_sva_condition"
    /\ item.pos_sentence = <<"NNS", "DT", "NN", "VBP">>
    /\ item.subj_index = 1
    /\ item.verb_index = 4
    /\ sva_condition = "PS"

\* The tokens of the sentence the context is cut from, given whether the
\* sentence is transliterated first.
TokensOf(orig, translit) == split(IF translit THEN unidecode(orig) ELSE orig)

FirstTokens(tokens, n) == [k \in 1..Min(n, Len(tokens)) |-> tokens[k]]

\* C10, as stated: the sentence is transliterated iff one of its characters
\* has a code point above 127, and the context is the first verb_index - 1
\* tokens of the (possibly transliterated) sentence.
C10_TransliteratesBeyondAscii ==
    pc = "item_to_example"
    => /\ transliterated <=>
             (\E k \in 1..Len(item.orig_sentence) : item.orig_sentence[k] > 127)
       /\ example # None =>
             example[1].sen =
                FirstTokens(TokensOf(item.orig_sentence, transliterated),
                            item.verb_index - 1)

\* C10, amended: the sentence is transliterated iff one of its characters has
\* a code point above 255, and the context of an emitted example is the first
\* verb_index - 1 tokens of the sentence, transliterated exactly in that case.
C10_TransliteratesBeyondLatin1 ==
    pc = "item_to_example"
    => /\ transliterated <=>
             (\E k \in 1..Len(item.orig_sentence) : item.orig_sentence[k] > 255)
       /\ example # None =>
             example[1].sen =
                FirstTokens(TokensOf(item.orig_sentence,
                                     \E k \in 1..Len(item.orig_sentence) :
                                        item.orig_sentence[k] > 255),
                            item.verb_index - 1)

\* A Latin-1 character alone is left as it is; the context holds it.
C10_Witness ==
    /\ pc = "item_to_example"
    /\ item.orig_sentence = <<233, 32, 97>>
    /\ item.verb_index = 2
    /\ ~transliterated
    /\ example = Some(Example(<< <<233>> >>, "is", "are"))

(***************************************************************************)
(* LinzenDownstream.create_verb_inflections                                *)
(*                                                                         *)
(* wiki_vocab is None when wiki.vocab does not exist, else Some(rows), a   *)
(* row being [word, pos] (the third field of a line is not read).          *)
(***************************************************************************)
MaxRows == 3

Range(f) == {f[x] : x \in DOMAIN f}

\* dict[key] = value
dict_set(dict, key, value) ==
    [x \in DOMAIN dict \cup {key} |-> IF x = key THEN value ELSE dict[x]]

\* pos_to_token[pos] after the loop over the lines of wiki.vocab
RECURSIVE pos_to_token(_, _, _)
pos_to_token(rows, vocab, pos) ==
    IF rows = << >> THEN << >>
    ELSE (IF Head(rows).word \in vocab /\ Head(rows).pos = pos
          THEN <<Head(rows).word>> ELSE << >>)
         \o pos_to_token(Tail(rows), vocab, pos)

\* The loop over pos_to_token["VBZ"], started with the table built so far.
RECURSIVE inflection_loop(_, _, _, _)
inflection_loop(vbz, vbp, oracle, table) ==
    IF vbz = << >> THEN table
    ELSE LET word == Head(vbz)
             candidate == oracle[word]
         IN  IF candidate \in Range(vbp)
             THEN inflection_loop(Tail(vbz), vbp, oracle,
                     dict_set(dict_set(table, candidate, word), word, candidate))
             ELSE inflection_loop(Tail(vbz), vbp, oracle, table)

\* LinzenDownstream.create_verb_inflections
create_verb_inflections(vocab, wiki, oracle) ==
    IF wiki = None
    THEN Raise("FileNotFoundError", "wiki.vocab")
    ELSE Return(inflection_loop(pos_to_token(wiki[1], vocab, "VBZ"),
                                pos_to_token(wiki[1], vocab, "VBP"),
                                oracle, << >>))

Words == {"has", "have", "is"}

WikiRows == [word : Words, pos : {"VBZ", "VBP", "NN"}]

\* The inputs of create_verb_inflections: every tagged word list of up to
\* MaxRows rows (or no file), every model vocabulary of at least two of the
\* words, and every oracle on the words.
InitInflections ==
    /\ pc = "LinzenDownstream.inflections"
    /\ wiki_vocab \in {None} \cup {Some(rows) : rows \in SeqsUpTo(WikiRows, MaxRows)}
    /\ model_vocab \in {v \in SUBSET Words : Cardinality(v) >= 2}
    /\ plural_verb \in [Words -> Words]
    /\ verb_inflections = Return(<< >>)
    /\ IdleStates /\ IdleItem /\ IdleCorpus

\* A call of LinzenDownstream.create_verb_inflections(corpus_path).
CreateVerbInflections ==
    /\ pc = "LinzenDownstream.inflections"
    /\ verb_inflections' = create_verb_inflections(model_vocab, wiki_vocab, plural_verb)
    /\ pc' = "create_verb_inflections"
    /\ UNCHANGED <<wiki_vocab, model_vocab, plural_verb>>
    /\ UNCHANGED <<statesVars, itemVars, corpusVars>>

NextInflections == CreateVerbInflections

SpecInflections == InitInflections /\ [][NextInflections]_vars

\* C9: the table create_verb_inflections returns is symmetric for every
\* tagged word list, model vocabulary and oracle: table[table[w]] = w for
\* every key w.
C9_TableIsSymmetric ==
    (pc = "create_verb_inflections" /\ verb_inflections.raised = "")
    => LET table == verb_inflections.value
       IN  \A w \in DOMAIN table :
              table[w] \in DOMAIN table /\ table[table[w]] = w

(***************************************************************************)
(* LinzenDownstream: building the corpora.                                 *)
(*                                                                         *)
(* corpus_file holds the RawItems of the rows after the header, in file    *)
(* order.  A Corpus is modelled by the list of its examples.               *)
(***************************************************************************)
MaxItems == 3
MaxCap == 2
DefaultItemsPerSubtask == 1000

DefaultSubtasks == <<"SS", "SP", "PS", "PP", "SPP", "PSS", "SPPP", "PSSS">>

\* A plausible slip: every requested condition is registered before the rows
\* are read.
RECURSIVE create_raw_corpora_registered(_, _)
create_raw_corpora_registered(rows, subtask_list) ==
    IF rows = << >> THEN [c \in Range(subtask_list) |-> << >>]
    ELSE LET raw == create_raw_corpora_registered(
                        PySlice(rows, None, Some(Len(rows) - 1)), subtask_list)
             it == rows[Len(rows)]
             cond == item_to_sva_condition(it)
         IN  IF cond \in Range(subtask_list)
             THEN dict_set(raw, cond, Append(raw[cond], it))
             ELSE raw

\* LinzenDownstream.create_raw_corpora: the dict after the loop over `rows`.
RECURSIVE create_raw_corpora(_, _)
create_raw_corpora(rows, subtask_list) ==
    IF rows = << >> THEN << >>
    ELSE LET raw == create_raw_corpora(
                        PySlice(rows, None, Some(Len(rows) - 1)), subtask_list)
             it == rows[Len(rows)]
             cond == item_to_sva_condition(it)
         IN  IF cond \in Range(subtask_list)
             THEN dict_set(raw, cond,
                           Append(IF cond \in DOMAIN raw THEN raw[cond] ELSE << >>, it))
             ELSE raw

\* list(filter(None, examples))
RECURSIVE filter_none(_)
filter_none(examples) ==
    IF examples = << >> THEN << >>
    ELSE Head(examples) \o filter_none(Tail(examples))

\* A plausible slip: the cap is not applied.
create_corpus_uncapped(items, table, cap) ==
    filter_none([k \in 1..Len(items) |-> item_to_example(items[k], table)])

\* LinzenDownstream.create_corpus
create_corpus(items, table, cap) ==
    LET examples == filter_none(
            [k \in 1..Len(items) |-> item_to_example(items[k], table)])
    IN  IF cap # None THEN PySlice(examples, None, cap) ELSE examples

\* A plausible slip: the subject's own letter is not counted as an attractor.
n_attractors_without_subject(condition) == ToString(Len(condition) - 1)

\* str(len(condition))
n_attractors(condition) == ToString(Len(condition))

\* LinzenDownstream.create_corpora
create_corpora(rows, subtask_list, cap, vocab, wiki, oracle) ==
    LET raw == create_raw_corpora(rows, subtask_list)
        inflections == create_verb_inflections(vocab, wiki, oracle)
    IN  IF inflections.raised # "" THEN inflections
        ELSE Return(
            [n \in {n_attractors(c) : c \in DOMAIN raw} |->
                [c \in {d \in DOMAIN raw : n_attractors(d) = n} |->
                    create_corpus(raw[c], inflections.value, cap)]])

\* subtasks or ["SS", ...]
subtasks_or_default(subtask_list) ==
    IF subtask_list = None \/ subtask_list[1] = << >>
    THEN DefaultSubtasks ELSE subtask_list[1]

Sentence(n) == [k \in 1..(2 * n - 1) |-> IF k % 2 = 1 THEN 97 ELSE 32]

\* The rows a corpus file is drawn from: three tag patterns ("S", "PS",
\* "SS"), verbs with and without an inflection pair, distinct sentences.
ItemPool ==
    { RawItem(Sentence(2), <<"NN", "VBP">>, "is", 1, 2),
      RawItem(Sentence(3), <<"NNS", "NN", "VBP">>, "is", 1, 3),
      RawItem(<<233, 32, 97, 32, 97>>, <<"NNS", "NN", "VBP">>, "are", 1, 3),
      RawItem(Sentence(3), <<"NNS", "NN", "VBP">>, "walks", 1, 3),
      RawItem(Sentence(4), <<"NN", "DT", "NN", "VBP">>, "walks", 1, 4),
      RawItem(Sentence(4), <<"NN", "DT", "NN", "VBP">>, "is", 1, 4) }

SubtaskLists == { << >>, <<"PS">>, <<"PS", "SS">>, <<"S", "SS">> }

English ==
    [w \in {"is", "are", "walks", "walk"} |->
        IF w = "is" THEN "are" ELSE IF w = "walks" THEN "walk" ELSE w]

WikiFiles ==
    { None,
      Some(<<[word |-> "is", pos |-> "VBZ"], [word |-> "are", pos |-> "VBP"]>>),
      Some(<<[word |-> "is", pos |-> "VBZ"], [word |-> "are", pos |-> "VBP"],
             [word |-> "walks", pos |-> "VBZ"], [word |-> "walk", pos |-> "VBP"]>>) }

\* The inputs of a build: every corpus file of up to MaxItems rows of the
\* pool, with or without wiki.vocab, and a model vocabulary with or without
\* the plural form "walk".
InitCorpora ==
    /\ pc = "LinzenDownstream.corpora"
    /\ corpus_file \in SeqsUpTo(ItemPool, MaxItems)
    /\ wiki_vocab \in WikiFiles
    /\ model_vocab \in {{"is", "are", "walks", "walk"}, {"is", "are", "walks"}}
    /\ plural_verb = English
    /\ subtasks = << >>
    /\ items_per_subtask = None
    /\ raw_corpora = << >>
    /\ verb_inflections = Return(<< >>)
    /\ corpora = Return(<< >>)
    /\ IdleStates /\ IdleItem

\* The body of create_corpora, on the arguments `subtask_list` and `cap`.
Build(subtask_list, cap) ==
    /\ subtasks' = subtask_list
    /\ items_per_subtask' = cap
    /\ raw_corpora' = create_raw_corpora(corpus_file, subtask_list)
    /\ verb_inflections' = create_verb_inflections(model_vocab, wiki_vocab, plural_verb)
    /\ corpora' = create_corpora(corpus_file, subtask_list, cap,
                                 model_vocab, wiki_vocab, plural_verb)
    /\ UNCHANGED <<corpus_file, wiki_vocab, model_vocab, plural_verb>>
    /\ UNCHANGED <<statesVars, itemVars>>

\* A call of LinzenDownstream.create_corpora(corpus_path, subtasks, items_per_subtask).
CreateCorpora ==
    /\ pc = "LinzenDownstream.corpora"
    /\ \E subtask_list \in SubtaskLists,
          cap \in {None} \cup {Some(n) : n \in 0..MaxCap} :
          Build(subtask_list, cap)
    /\ pc' = "create_corpora"

\* A call of LinzenDownstream.initialize(corpus_path, subtasks, items_per_subtask).
Initialize ==
    /\ pc = "LinzenDownstream.corpora"
    /\ \E subtask_list \in {None} \cup {Some(l) : l \in SubtaskLists},
          cap \in {None, Some(DefaultItemsPerSubtask)} \cup {Some(n) : n \in 0..MaxCap} :
          Build(subtasks_or_default(subtask_list), cap)
    /\ pc' = "initialize"

NextCorpora == CreateCorpora \/ Initialize

SpecCorpora == InitCorpora /\ [][NextCorpora]_vars

(***************************************************************************)
(* Claims about a build.                                                   *)
(***************************************************************************)
\* A build that ran to its end (wiki.vocab was there).
BuildDone == pc \in {"create_corpora", "initialize"} /\ corpora.raised = ""

OutputConditions == UNION {DOMAIN corpora.value[n] : n \in DOMAIN corpora.value}

CorpusOf(c) ==
    corpora.value[CHOOSE n \in DOMAIN corpora.value : c \in DOMAIN corpora.value[n]][c]

Prefix(seq, n) == [k \in 1..Min(n, Len(seq)) |-> seq[k]]

HasPair(it) == it.verb \in DOMAIN verb_inflections.value

\* The rows of the file classified into condition c, in file order.
Classified(c) == SelectSeq(corpus_file, LAMBDA it : item_to_sva_condition(it) = c)

\* The triple (context, verb, table[verb]) of an item whose verb is a key.
TripleOf(it) ==
    [sen |-> FirstTokens(TokensOf(it.orig_sentence,
                                  \E k \in 1..Len(it.orig_sentence) :
                                     it.orig_sentence[k] > 255),
                         it.verb_index - 1),
     token |-> it.verb,
     wrong_token |-> verb_inflections.value[it.verb]]

\* The examples of the items of `items` that have an inflection pair, in order.
Surviving(items) ==
    LET kept == SelectSeq(items, HasPair)
    IN  [k \in 1..Len(kept) |-> TripleOf(kept[k])]

\* C5: with a cap N >= 0 every condition of the output holds the first
\* min(N, available) surviving examples of its items, in file order; with no
\* cap it holds all of them, in file order.
C5_CapKeepsFirstInFileOrder ==
    (BuildDone /\ (items_per_subtask = None \/ items_per_subtask[1] >= 0))
    => \A c \in OutputConditions :
          LET available == Surviving(Classified(c))
          IN  CorpusOf(c) =
                 IF items_per_subtask = None THEN available
                 ELSE Prefix(available, Min(items_per_subtask[1], Len(available)))

\* A cap of 1 on a condition with two distinct surviving examples and a
\* dropped item: the first survivor alone is kept.
C5_Witness ==
    /\ BuildDone
    /\ items_per_subtask = Some(1)
    /\ \E c \in OutputConditions :
          LET available == Surviving(Classified(c))
          IN  /\ Len(available) = 2
              /\ Len(Classified(c)) = 3
              /\ available[1] # available[2]
              /\ CorpusOf(c) = <<available[1]>>

\* C6: no example comes from an item whose verb is not a key of the table,
\* every item whose verb is a key yields the one example (context, verb,
\* table[verb]), and with no cap a condition's example count is the count of
\* its retained items less the count of those without an inflection pair.
C6_ItemsWithoutPairAreDropped ==
    BuildDone
    => \A c \in DOMAIN raw_corpora :
          /\ c \in OutputConditions
          /\ \A k \in 1..Len(CorpusOf(c)) :
                CorpusOf(c)[k].token \in DOMAIN verb_inflections.value
          /\ items_per_subtask = None =>
                /\ CorpusOf(c) = Surviving(raw_corpora[c])
                /\ Len(CorpusOf(c)) =
                      Len(raw_corpora[c])
                      - Cardinality({k \in 1..Len(raw_corpora[c]) :
                                        ~HasPair(raw_corpora[c][k])})

\* An uncapped condition with items of both sorts.
C6_Witness ==
    /\ BuildDone
    /\ items_per_subtask = None
    /\ \E c \in DOMAIN raw_corpora :
          /\ Len(raw_corpora[c]) = 3
          /\ Len(CorpusOf(c)) = 1
          /\ \E k \in 1..3 : HasPair(raw_corpora[c][k])
          /\ \E k \in 1..3 : ~HasPair(raw_corpora[c][k])

\* C7, as stated: no condition of the output maps to an empty corpus (a
\* requested condition with zero surviving examples is absent), and no
\* attractor-count key maps to an empty inner mapping.
C7_NoEmptyCorpus ==
    BuildDone
    => /\ \A c \in OutputConditions : CorpusOf(c) # << >>
       /\ \A n \in DOMAIN corpora.value : DOMAIN corpora.value[n] # {}

\* C7, amended: a requested condition is in the output exactly when at least
\* one row of the file is classified into it, whether or not any of its
\* examples survives (it may map to an empty corpus); no attractor-count key
\* maps to an empty inner mapping.
C7_PresentIffClassified ==
    BuildDone
    => /\ OutputConditions = {c \in Range(subtasks) : Classified(c) # << >>}
       /\ \A n \in DOMAIN corpora.value : DOMAIN corpora.value[n] # {}

\* One requested condition has rows but no surviving example and is present
\* with an empty corpus; another has no row and is absent.
C7_Witness ==
    /\ BuildDone
    /\ \E c \in OutputConditions : Classified(c) # << >> /\ CorpusOf(c) = << >>
    /\ \E c \in Range(subtasks) : Classified(c) = << >> /\ c \notin OutputConditions

\* C8: every condition of the output is a requested one, is nested under the
\* decimal string of its own length and under no other key, and its corpus
\* holds only examples built from rows whose computed condition it is.
C8_GroupedByOwnLength ==
    BuildDone
    => \A n \in DOMAIN corpora.value : \A c \in DOMAIN corpora.value[n] :
          /\ c \in Range(subtasks)
          /\ n = ToString(Len(c))
          /\ \A m \in DOMAIN corpora.value \ {n} : c \notin DOMAIN corpora.value[m]
          /\ \A k \in 1..Len(corpora.value[n][c]) :
                \E j \in 1..Len(corpus_file) :
                   /\ item_to_sva_condition(corpus_file[j]) = c
                   /\ HasPair(corpus_file[j])
                   /\ TripleOf(corpus_file[j]) = corpora.value[n][c][k]

\* Conditions of two lengths in the output, and a row of a condition that
\* was not requested, discarded.
C8_Witness ==
    /\ BuildDone
    /\ DOMAIN corpora.value = {"1", "2"}
    /\ \E c \in OutputConditions : CorpusOf(c) # << >>
    /\ \E j \in 1..Len(corpus_file) :
          /\ item_to_sva_condition(corpus_file[j]) \notin Range(subtasks)
          /\ item_to_sva_condition(corpus_file[j]) \notin OutputConditions

(***************************************************************************)
(* The whole program: one of the entry points above is called, once, on    *)
(* inputs of its own.                                                      *)
(***************************************************************************)
Init == InitInitStates \/ InitSva \/ InitExample \/ InitInflections \/ InitCorpora

Next == NextInitStates \/ NextSva \/ NextExample \/ NextInflections \/ NextCorpora

Spec == Init /\ [][Next]_vars

============================================================================
